---------------------------- MODULE Spec2Model ----------------------------
(***************************************************************************)
(* Model of tools/docmeta-query.py (DocmetaQueryTool).                     *)
(*                                                                         *)
(* A Python str is a sequence of one-character strings.  A Python value is *)
(* a tagged record:                                                        *)
(*   None  [t |-> "none"]              str   [t |-> "str",  s |-> chars]   *)
(*   int   [t |-> "int", n |-> n]      bool  [t |-> "bool", b |-> b]       *)
(*   list  [t |-> "list", xs |-> <<values>>]                               *)
(*   dict  [t |-> "dict", kv |-> << <<key, value>>, ... >>]                *)
(* An absent dict key is the record [t |-> "absent"], which only ever      *)
(* appears as the result of DictGet before the default is applied.         *)
(***************************************************************************)
EXTENDS Integers, Sequences, FiniteSets, TLC

(***************************************************************************)
(* Characters and Python string methods                                    *)
(***************************************************************************)

\* The full-width comma and semicolon of lines 146, 192, 193, as characters.
FWComma == "FWCOMMA"
FWSemi == "FWSEMI"

\* The characters str.strip() removes (the ASCII whitespace of the model).
Whitespace == {" ", "\n", "\t"}

UpperChars == <<"A","B","C","D","E","F","G","H","I","J","K","L","M",
                "N","O","P","Q","R","S","T","U","V","W","X","Y","Z">>
LowerChars == <<"a","b","c","d","e","f","g","h","i","j","k","l","m",
                "n","o","p","q","r","s","t","u","v","w","x","y","z">>
DigitChars == <<"0","1","2","3","4","5","6","7","8","9">>

Range(f) == {f[i] : i \in DOMAIN f}

IndexOf(c, seq) == CHOOSE i \in DOMAIN seq : seq[i] = c

\* str.lower() on one character, then on a string.
LowerChar(c) == IF c \in Range(UpperChars) THEN LowerChars[IndexOf(c, UpperChars)] ELSE c
lower(s) == [i \in DOMAIN s |-> LowerChar(s[i])]

\* str.strip(): drop leading and trailing whitespace.
RECURSIVE lstrip(_)
lstrip(s) == IF s # <<>> /\ Head(s) \in Whitespace THEN lstrip(Tail(s)) ELSE s
RECURSIVE rstrip(_)
rstrip(s) ==
    IF s # <<>> /\ s[Len(s)] \in Whitespace THEN rstrip(SubSeq(s, 1, Len(s) - 1)) ELSE s
strip(s) == rstrip(lstrip(s))

\* str.rstrip('/') of line 266.
RECURSIVE rstrip_slash(_)
rstrip_slash(s) ==
    IF s # <<>> /\ s[Len(s)] = "/" THEN rstrip_slash(SubSeq(s, 1, Len(s) - 1)) ELSE s

startswith(s, p) == Len(s) >= Len(p) /\ SubSeq(s, 1, Len(p)) = p
endswith(s, p) == Len(s) >= Len(p) /\ SubSeq(s, Len(s) - Len(p) + 1, Len(s)) = p

\* s.replace(old, new) for a one-character old.
replace(s, old, new) == [i \in DOMAIN s |-> IF s[i] = old THEN new ELSE s[i]]

\* s.split(sep) for a one-character sep: always at least one part.
RECURSIVE split(_, _)
split(s, sep) ==
    IF \A i \in DOMAIN s : s[i] # sep THEN <<s>>
    ELSE LET i == CHOOSE k \in DOMAIN s : s[k] = sep /\ \A m \in 1..(k - 1) : s[m] # sep
         IN  <<SubSeq(s, 1, i - 1)>> \o split(SubSeq(s, i + 1, Len(s)), sep)

\* s.split(sep, 1): at most one split.
split1(s, sep) ==
    IF \A i \in DOMAIN s : s[i] # sep THEN <<s>>
    ELSE LET i == CHOOSE k \in DOMAIN s : s[k] = sep /\ \A m \in 1..(k - 1) : s[m] # sep
         IN  <<SubSeq(s, 1, i - 1), SubSeq(s, i + 1, Len(s))>>

\* sep.join(parts)
RECURSIVE join(_, _)
join(sep, parts) ==
    IF parts = <<>> THEN <<>>
    ELSE IF Len(parts) = 1 THEN parts[1]
    ELSE parts[1] \o sep \o join(sep, Tail(parts))

(***************************************************************************)
(* Python values                                                           *)
(***************************************************************************)
PyNone == [t |-> "none"]
PyAbsent == [t |-> "absent"]
PyStr(s) == [t |-> "str", s |-> s]
PyInt(n) == [t |-> "int", n |-> n]
PyBool(b) == [t |-> "bool", b |-> b]
PyList(xs) == [t |-> "list", xs |-> xs]
PyDict(kv) == [t |-> "dict", kv |-> kv]

\* d.get(key): the value of the last pair with that key, or PyAbsent.
RECURSIVE DictGet(_, _)
DictGet(kv, key) ==
    IF kv = <<>> THEN PyAbsent
    ELSE IF kv[Len(kv)][1] = key THEN kv[Len(kv)][2]
    ELSE DictGet(SubSeq(kv, 1, Len(kv) - 1), key)

\* d.get(key, default)
get(d, key, default) ==
    LET v == DictGet(d.kv, key) IN IF v.t = "absent" THEN default ELSE v

\* str(n) for an int.
RECURSIVE NatDigits(_)
NatDigits(n) ==
    IF n < 10 THEN <<DigitChars[n + 1]>> ELSE NatDigits(n \div 10) \o <<DigitChars[(n % 10) + 1]>>
IntStr(n) == IF n < 0 THEN <<"-">> \o NatDigits(0 - n) ELSE NatDigits(n)

\* repr(x) and str(x).  They differ on str only: repr quotes it.
RECURSIVE repr(_)
RECURSIVE ReprItems(_)
RECURSIVE ReprPairs(_)
ReprItems(xs) ==
    IF xs = <<>> THEN <<>>
    ELSE IF Len(xs) = 1 THEN repr(xs[1])
    ELSE repr(xs[1]) \o <<",", " ">> \o ReprItems(Tail(xs))
ReprPairs(kv) ==
    IF kv = <<>> THEN <<>>
    ELSE IF Len(kv) = 1 THEN repr(kv[1][1]) \o <<":", " ">> \o repr(kv[1][2])
    ELSE repr(kv[1][1]) \o <<":", " ">> \o repr(kv[1][2]) \o <<",", " ">> \o ReprPairs(Tail(kv))
repr(x) ==
    CASE x.t = "none" -> <<"N", "o", "n", "e">>
      [] x.t = "str"  -> <<"'">> \o x.s \o <<"'">>
      [] x.t = "int"  -> IntStr(x.n)
      [] x.t = "bool" -> IF x.b THEN <<"T", "r", "u", "e">> ELSE <<"F", "a", "l", "s", "e">>
      [] x.t = "list" -> <<"[">> \o ReprItems(x.xs) \o <<"]">>
      [] x.t = "dict" -> <<"{">> \o ReprPairs(x.kv) \o <<"}">>
str(x) == IF x.t = "str" THEN x.s ELSE repr(x)

\* bool(x): Python truthiness.
truthy(x) ==
    CASE x.t = "none" -> FALSE
      [] x.t = "absent" -> FALSE
      [] x.t = "str"  -> x.s # <<>>
      [] x.t = "int"  -> x.n # 0
      [] x.t = "bool" -> x.b
      [] x.t = "list" -> x.xs # <<>>
      [] x.t = "dict" -> x.kv # <<>>


(***************************************************************************)
(* json.dumps and json.loads                                               *)
(*                                                                         *)
(* The JSON subset: strings without escapes, integers, null, true, false,  *)
(* arrays and objects with string keys.  A control character inside a      *)
(* string literal is a parse error, as in Python's strict decoder.         *)
(***************************************************************************)
JsonWhitespace == {" ", "\n", "\t"}
ControlChars == {"\n", "\t"}

RECURSIVE dumps(_)
RECURSIVE DumpItems(_)
RECURSIVE DumpPairs(_)
DumpItems(xs) ==
    IF xs = <<>> THEN <<>>
    ELSE IF Len(xs) = 1 THEN dumps(xs[1])
    ELSE dumps(xs[1]) \o <<",", " ">> \o DumpItems(Tail(xs))
DumpPairs(kv) ==
    IF kv = <<>> THEN <<>>
    ELSE IF Len(kv) = 1 THEN dumps(kv[1][1]) \o <<":", " ">> \o dumps(kv[1][2])
    ELSE dumps(kv[1][1]) \o <<":", " ">> \o dumps(kv[1][2]) \o <<",", " ">> \o DumpPairs(Tail(kv))
dumps(x) ==
    CASE x.t = "none" -> <<"n", "u", "l", "l">>
      [] x.t = "str"  -> <<"\"">> \o x.s \o <<"\"">>
      [] x.t = "int"  -> IntStr(x.n)
      [] x.t = "bool" -> IF x.b THEN <<"t", "r", "u", "e">> ELSE <<"f", "a", "l", "s", "e">>
      [] x.t = "list" -> <<"[">> \o DumpItems(x.xs) \o <<"]">>
      [] x.t = "dict" -> <<"{">> \o DumpPairs(x.kv) \o <<"}">>

\* A parse step's result: ok, the value, and the index after it.
ParseFail == [ok |-> FALSE, v |-> PyNone, i |-> 0]
Parsed(v, i) == [ok |-> TRUE, v |-> v, i |-> i]

\* The first index >= i that holds no JSON whitespace (Len(s) + 1 at the end).
RECURSIVE SkipWs(_, _)
SkipWs(s, i) == IF i <= Len(s) /\ s[i] \in JsonWhitespace THEN SkipWs(s, i + 1) ELSE i

\* The end of the run of digits starting at i (i - 1 when there is none).
RECURSIVE DigitsEnd(_, _)
DigitsEnd(s, i) ==
    IF i <= Len(s) /\ s[i] \in Range(DigitChars) THEN DigitsEnd(s, i + 1) ELSE i - 1

RECURSIVE DigitsValue(_)
DigitsValue(ds) ==
    IF ds = <<>> THEN 0
    ELSE 10 * DigitsValue(SubSeq(ds, 1, Len(ds) - 1)) + (IndexOf(ds[Len(ds)], DigitChars) - 1)

ParseString(s, i) ==
    \* s[i] is the opening quote
    IF \A j \in (i + 1)..Len(s) : s[j] # "\"" THEN ParseFail
    ELSE LET j == CHOOSE k \in (i + 1)..Len(s) :
                      s[k] = "\"" /\ \A m \in (i + 1)..(k - 1) : s[m] # "\""
         IN  IF \E m \in (i + 1)..(j - 1) : s[m] \in ControlChars \/ s[m] = "\\"
             THEN ParseFail
             ELSE Parsed(PyStr(SubSeq(s, i + 1, j - 1)), j + 1)

ParseNumber(s, i) ==
    LET neg == s[i] = "-"
        b == IF neg THEN i + 1 ELSE i
        e == DigitsEnd(s, b)
    IN  IF e < b THEN ParseFail
        ELSE IF s[b] = "0" /\ e > b THEN Parsed(PyInt(0), b + 1)
        ELSE LET n == DigitsValue(SubSeq(s, b, e))
             IN  Parsed(PyInt(IF neg THEN 0 - n ELSE n), e + 1)

ParseLiteral(s, i, word, v) ==
    IF i + Len(word) - 1 <= Len(s) /\ SubSeq(s, i, i + Len(word) - 1) = word
    THEN Parsed(v, i + Len(word))
    ELSE ParseFail

RECURSIVE ParseValue(_, _)
RECURSIVE ParseArrayItems(_, _, _)
RECURSIVE ParseObjectPairs(_, _, _)

\* After "[" and at least one item may follow: i is at the start of an item.
ParseArrayItems(s, i, acc) ==
    LET r == ParseValue(s, SkipWs(s, i)) IN
    IF ~r.ok THEN ParseFail
    ELSE LET k == SkipWs(s, r.i) IN
         IF k > Len(s) THEN ParseFail
         ELSE IF s[k] = "," THEN ParseArrayItems(s, k + 1, Append(acc, r.v))
         ELSE IF s[k] = "]" THEN Parsed(PyList(Append(acc, r.v)), k + 1)
         ELSE ParseFail

ParseObjectPairs(s, i, acc) ==
    LET k == SkipWs(s, i) IN
    IF k > Len(s) \/ s[k] # "\"" THEN ParseFail
    ELSE LET key == ParseString(s, k) IN
         IF ~key.ok THEN ParseFail
         ELSE LET c == SkipWs(s, key.i) IN
              IF c > Len(s) \/ s[c] # ":" THEN ParseFail
              ELSE LET r == ParseValue(s, SkipWs(s, c + 1)) IN
                   IF ~r.ok THEN ParseFail
                   ELSE LET e == SkipWs(s, r.i) IN
                        IF e > Len(s) THEN ParseFail
                        ELSE IF s[e] = ","
                             THEN ParseObjectPairs(s, e + 1, Append(acc, <<key.v, r.v>>))
                        ELSE IF s[e] = "}"
                             THEN Parsed(PyDict(Append(acc, <<key.v, r.v>>)), e + 1)
                        ELSE ParseFail

ParseValue(s, i) ==
    IF i > Len(s) THEN ParseFail
    ELSE CASE s[i] = "\"" -> ParseString(s, i)
           [] s[i] = "[" ->
                LET k == SkipWs(s, i + 1) IN
                IF k <= Len(s) /\ s[k] = "]" THEN Parsed(PyList(<<>>), k + 1)
                ELSE ParseArrayItems(s, i + 1, <<>>)
           [] s[i] = "{" ->
                LET k == SkipWs(s, i + 1) IN
                IF k <= Len(s) /\ s[k] = "}" THEN Parsed(PyDict(<<>>), k + 1)
                ELSE ParseObjectPairs(s, i + 1, <<>>)
           [] s[i] = "-" \/ s[i] \in Range(DigitChars) -> ParseNumber(s, i)
           [] s[i] = "n" -> ParseLiteral(s, i, <<"n", "u", "l", "l">>, PyNone)
           [] s[i] = "t" -> ParseLiteral(s, i, <<"t", "r", "u", "e">>, PyBool(TRUE))
           [] s[i] = "f" -> ParseLiteral(s, i, <<"f", "a", "l", "s", "e">>, PyBool(FALSE))
           [] OTHER -> ParseFail

\* json.loads(s): [ok, v]; ok = FALSE stands for the raised JSONDecodeError.
loads(s) ==
    LET r == ParseValue(s, SkipWs(s, 1)) IN
    IF r.ok /\ SkipWs(s, r.i) > Len(s) THEN [ok |-> TRUE, v |-> r.v]
    ELSE [ok |-> FALSE, v |-> PyNone]

(***************************************************************************)
(* String literals of the source, as character sequences                   *)
(***************************************************************************)
s_name == <<"n", "a", "m", "e">>
s_value == <<"v", "a", "l", "u", "e">>
s_id == <<"i", "d">>
s_doc_metadata == <<"d", "o", "c", "_", "m", "e", "t", "a", "d", "a", "t", "a">>
s_data == <<"d", "a", "t", "a">>
s_document_name == <<"d", "o", "c", "u", "m", "e", "n", "t", "_", "n", "a", "m", "e">>
s_uploader == <<"u", "p", "l", "o", "a", "d", "e", "r">>
s_upload_date == <<"u", "p", "l", "o", "a", "d", "_", "d", "a", "t", "e">>
s_last_update_date == <<"l", "a", "s", "t", "_", "u", "p", "d", "a", "t", "e", "_", "d", "a", "t", "e">>
s_source == <<"s", "o", "u", "r", "c", "e">>
s_built_in_dash == <<"b", "u", "i", "l", "t", "-", "i", "n">>
s_built_in_underscore == <<"b", "u", "i", "l", "t", "_", "i", "n">>
s_http == <<"h", "t", "t", "p", ":", "/", "/">>
s_https == <<"h", "t", "t", "p", "s", ":", "/", "/">>

\* DEFAULT_BASE_URL: the literal is kept as one token.
DEFAULT_BASE_URL == s_http \o <<"127.0.0.1:5001">>

(***************************************************************************)
(* Exceptions.  A call's outcome is Return(v) or Raise(class, message).    *)
(* A message is a sequence whose elements are the characters of the        *)
(* interpolated strings and the literal fragments of the f-string, each    *)
(* fragment one element.                                                   *)
(***************************************************************************)
Return(v) == [exc |-> "", msg |-> <<>>, v |-> v]
Raise(cls, msg) == [exc |-> cls, msg |-> msg, v |-> <<>>]

\* isinstance(e, cls) for the exception classes the program raises.
IsInstance(exc, cls) ==
    \/ exc = cls
    \/ cls = "Exception" /\ exc \in {"ValueError", "RuntimeError", "RequestException"}

(***************************************************************************)
(* Input normalisation                                                     *)
(***************************************************************************)

\* [str(x).strip() for x in val if str(x).strip()]
RECURSIVE StripNonBlank(_)
StripNonBlank(xs) ==
    IF xs = <<>> THEN <<>>
    ELSE LET e == strip(str(xs[1])) IN
         (IF e # <<>> THEN <<e>> ELSE <<>>) \o StripNonBlank(Tail(xs))

\* [p.strip() for p in parts], then [p for p in parts if p]
RECURSIVE StripParts(_)
StripParts(parts) ==
    IF parts = <<>> THEN <<>>
    ELSE LET e == strip(parts[1]) IN
         (IF e # <<>> THEN <<e>> ELSE <<>>) \o StripParts(Tail(parts))

\* The "looks like JSON" test of lines 105 and 139.
LooksLikeJsonList(s) ==
    \/ startswith(s, <<"[">>) /\ endswith(s, <<"]">>)
    \/ startswith(s, <<"\"">>) /\ endswith(s, <<"\"">>)

\* _require_str without the strip of line 85: a whitespace-only string passes.
_require_str_no_strip(val, name) ==
    IF val.t = "none" THEN Raise("ValueError", <<"missing required parameter: ">> \o name)
    ELSE IF val.t = "str"
         THEN IF val.s = <<>>
              THEN Raise("ValueError", <<"parameter '">> \o name \o <<"' cannot be empty">>)
              ELSE Return(val.s)
    ELSE Return(str(val))

_require_str(val, name) ==
    IF val.t = "none" THEN Raise("ValueError", <<"missing required parameter: ">> \o name)
    ELSE IF val.t = "str"
         THEN LET s == strip(val.s) IN
              IF s = <<>>
              THEN Raise("ValueError", <<"parameter '">> \o name \o <<"' cannot be empty">>)
              ELSE Return(s)
    ELSE Return(str(val))

RECURSIVE _normalize_dataset_list(_)
_normalize_dataset_list(val) ==
    IF val.t = "none"
    THEN Raise("ValueError", <<"missing required parameter: ", "dataset_list">>)
    ELSE IF val.t = "list"
    THEN LET items == StripNonBlank(val.xs) IN
         IF items = <<>>
         THEN Raise("ValueError", <<"parameter '", "dataset_list", "' is empty">>)
         ELSE Return(items)
    ELSE IF val.t = "str"
    THEN LET s == strip(val.s)
             parsed == loads(s)
             \* line 108, inside the try of line 106: "except Exception: pass"
             \* covers the decode error and whatever the recursive call raises
             nested == _normalize_dataset_list(parsed.v)
             parts == StripParts(split(replace(s, "\n", ","), ","))
         IN  IF s = <<>>
             THEN Raise("ValueError", <<"parameter '", "dataset_list", "' is empty">>)
             ELSE IF LooksLikeJsonList(s) /\ parsed.ok /\ ~IsInstance(nested.exc, "Exception")
             THEN nested
             ELSE IF parts = <<>>
             THEN Raise("ValueError", <<"parameter '", "dataset_list", "' is empty">>)
             ELSE Return(parts)
    ELSE Return(<<str(val)>>)

RECURSIVE _normalize_document_name_list(_)
_normalize_document_name_list(val) ==
    IF val.t = "none"
    THEN Raise("ValueError", <<"missing required parameter: ", "document_name">>)
    ELSE IF val.t = "list"
    THEN LET items == StripNonBlank(val.xs) IN
         IF items = <<>>
         THEN Raise("ValueError", <<"parameter '", "document_name", "' is empty">>)
         ELSE Return(items)
    ELSE IF val.t = "str"
    THEN LET s == strip(val.s)
             parsed == loads(s)
             nested == _normalize_document_name_list(parsed.v)
             parts == StripParts(split(replace(replace(s, "\n", ","), FWComma, ","), ","))
         IN  IF s = <<>>
             THEN Raise("ValueError", <<"parameter '", "document_name", "' is empty">>)
             ELSE IF LooksLikeJsonList(s) /\ parsed.ok /\ ~IsInstance(nested.exc, "Exception")
             THEN nested
             ELSE IF parts = <<>>
             THEN Raise("ValueError", <<"parameter '", "document_name", "' is empty">>)
             ELSE Return(parts)
    ELSE Return(<<str(val)>>)

_normalize_base_url(val) ==
    IF val.t = "none" THEN DEFAULT_BASE_URL
    ELSE LET s == strip(str(val)) IN
         IF s = <<>> THEN DEFAULT_BASE_URL
         ELSE IF ~(startswith(s, s_http) \/ startswith(s, s_https)) THEN s_http \o s
         ELSE s

(***************************************************************************)
(* The metadata filter                                                     *)
(*                                                                         *)
(* set[str] | None is [t |-> "set", xs |-> S] or PyNone; dict[str, str] |  *)
(* None is [t |-> "map", m |-> f], f a function from keys to values, or    *)
(* PyNone.                                                                 *)
(***************************************************************************)
PySet(xs) == [t |-> "set", xs |-> xs]
PyMap(m) == [t |-> "map", m |-> m]

\* mapping[k] = v
MapPut(m, k, v) == [x \in DOMAIN m \cup {k} |-> IF x = k THEN v ELSE m[x]]

\* "names" without the "or None" of lines 171 and 212.
SetAlways(xs) == PySet(xs)

\* "names or None", "mapping or None"
SetOrNone(xs) == IF xs = {} THEN PyNone ELSE PySet(xs)
MapOrNone(m) == IF DOMAIN m = {} THEN PyNone ELSE PyMap(m)

\* {str(k).strip(): str(v).strip() for k, v in val.items() if str(k).strip()}
RECURSIVE DictToMap(_, _)
DictToMap(kv, acc) ==
    IF kv = <<>> THEN acc
    ELSE LET k == strip(str(kv[1][1]))
             v == strip(str(kv[1][2]))
         IN  DictToMap(Tail(kv), IF k # <<>> THEN MapPut(acc, k, v) ELSE acc)

\* The loop of lines 196-204 over the tokens of the normalized string.
RECURSIVE PairsToMap(_, _)
PairsToMap(tokens, acc) ==
    IF tokens = <<>> THEN acc
    ELSE LET token == strip(tokens[1])
             kv == split1(token, "=")
             k == strip(kv[1])
             v == strip(kv[2])
         IN  IF token = <<>> \/ "=" \notin Range(token)
             THEN PairsToMap(Tail(tokens), acc)
             ELSE PairsToMap(Tail(tokens), IF k # <<>> THEN MapPut(acc, k, v) ELSE acc)

\* The "looks like JSON" test of line 181.
LooksLikeJsonFilter(s) ==
    \/ startswith(s, <<"[">>) /\ endswith(s, <<"]">>)
    \/ startswith(s, <<"{">>) /\ endswith(s, <<"}">>)

\* Returns the pair <<names_set, name_value_map>>; it raises nothing.
RECURSIVE _parse_metadata_filter(_)
_parse_metadata_filter(val) ==
    IF val.t = "none" THEN <<PyNone, PyNone>>
    ELSE IF val.t = "list"
    THEN <<SetOrNone(Range(StripNonBlank(val.xs))), PyNone>>
    ELSE IF val.t = "dict"
    THEN <<PyNone, MapOrNone(DictToMap(val.kv, <<>>))>>
    ELSE IF val.t = "str"
    THEN LET s == strip(val.s)
             parsed == loads(s)
             normalized ==
                 replace(replace(replace(replace(s, "\n", ","), FWSemi, ";"), FWComma, ","),
                         ";", ",")
             names == Range(StripParts(split(replace(replace(s, "\n", ","), FWComma, ","), ",")))
         IN  IF s = <<>> THEN <<PyNone, PyNone>>
             ELSE IF LooksLikeJsonFilter(s) /\ parsed.ok
             THEN _parse_metadata_filter(parsed.v)
             ELSE IF "=" \in Range(s)
             THEN <<PyNone, MapOrNone(PairsToMap(split(normalized, ","), <<>>))>>
             ELSE <<SetOrNone(names), PyNone>>
    ELSE <<PyNone, PyNone>>

\* _is_built_in_metadata without the lower() of line 251.
_is_built_in_metadata_case_sensitive(m) ==
    LET mid == strip(str(get(m, PyStr(s_id), PyStr(<<>>))))
        builtin_names ==
            {s_document_name, s_uploader, s_upload_date, s_last_update_date, s_source}
        name == strip(str(get(m, PyStr(s_name), PyStr(<<>>))))
    IN  IF mid \in {s_built_in_dash, s_built_in_underscore} THEN TRUE
        ELSE name \in builtin_names

_is_built_in_metadata(m) ==
    LET mid == lower(strip(str(get(m, PyStr(s_id), PyStr(<<>>)))))
        builtin_names ==
            {s_document_name, s_uploader, s_upload_date, s_last_update_date, s_source}
        name == strip(str(get(m, PyStr(s_name), PyStr(<<>>))))
    IN  IF mid \in {s_built_in_dash, s_built_in_underscore} THEN TRUE
        ELSE name \in builtin_names

\* "not names_set", "not name_value_map": None and the empty container are falsy.
Falsy(c) ==
    CASE c.t = "none" -> TRUE
      [] c.t = "set" -> c.xs = {}
      [] c.t = "map" -> DOMAIN c.m = {}

\* The loop of lines 229-247 with line 244 reading value_str = str(value).strip().
FilterKeepsStrOfNone(m, names_set, name_value_map) ==
    LET name == strip(str(get(m, PyStr(s_name), PyStr(<<>>))))
        value == get(m, PyStr(s_value), PyNone)
        value_str == strip(str(value))
    IN  IF _is_built_in_metadata(m) THEN FALSE
        ELSE IF name = <<>> THEN FALSE
        ELSE IF names_set.t # "none" THEN name \in names_set.xs
        ELSE IF name_value_map.t # "none"
        THEN name \in DOMAIN name_value_map.m /\ value_str = name_value_map.m[name]
        ELSE FALSE

\* One iteration of the loop of lines 229-247: whether m is appended.
FilterKeeps(m, names_set, name_value_map) ==
    LET name == strip(str(get(m, PyStr(s_name), PyStr(<<>>))))
        value == get(m, PyStr(s_value), PyNone)
        value_str == IF value.t = "none" THEN <<>> ELSE strip(str(value))
    IN  IF _is_built_in_metadata(m) THEN FALSE
        ELSE IF name = <<>> THEN FALSE
        ELSE IF names_set.t # "none" THEN name \in names_set.xs
        ELSE IF name_value_map.t # "none"
        THEN name \in DOMAIN name_value_map.m /\ value_str = name_value_map.m[name]
        ELSE FALSE

_filter_metadata(metadata_list, names_set, name_value_map) ==
    IF metadata_list = <<>> THEN <<>>
    ELSE IF Falsy(names_set) /\ Falsy(name_value_map)
    THEN SelectSeq(metadata_list, LAMBDA m : ~_is_built_in_metadata(m))
    ELSE SelectSeq(metadata_list, LAMBDA m : FilterKeeps(m, names_set, name_value_map))

\* _extract_document_name_from_metadata returning None from inside the loop when
\* the first entry is not the one: only the first entry is looked at.
_extract_document_name_first_entry_only(metadata_list) ==
    IF metadata_list.t # "list" \/ metadata_list.xs = <<>> THEN PyNone
    ELSE LET m == metadata_list.xs[1] IN
         IF get(m, PyStr(s_name), PyNone) = PyStr(s_document_name)
         THEN LET v == get(m, PyStr(s_value), PyNone) IN
              IF v.t = "none" THEN PyNone ELSE PyStr(str(v))
         ELSE PyNone

\* Returns None or a str; the argument is the list, or None for "or []".
RECURSIVE _extract_document_name_from_metadata(_)
_extract_document_name_from_metadata(metadata_list) ==
    IF metadata_list.t # "list" \/ metadata_list.xs = <<>> THEN PyNone
    ELSE LET m == metadata_list.xs[1] IN
         IF get(m, PyStr(s_name), PyNone) = PyStr(s_document_name)
         THEN LET v == get(m, PyStr(s_value), PyNone) IN
              IF v.t = "none" THEN PyNone ELSE PyStr(str(v))
         ELSE _extract_document_name_from_metadata(PyList(Tail(metadata_list.xs)))

(***************************************************************************)
(* _fetch_documents                                                        *)
(*                                                                         *)
(* resp is what the remote endpoint does with the request:                 *)
(*   resp.raised       requests.get raised a RequestException (resp.err)   *)
(*   resp.status_code  the status of the response                          *)
(*   resp.text         the body, as text                                   *)
(*   resp.json         resp.json(): [ok |-> FALSE] when it raises          *)
(*                     ValueError, else [ok |-> TRUE, v |-> the value]     *)
(* The text of the URL and of the headers (lines 266-270) is not built:    *)
(* a request is the record of the arguments it is made from.               *)
(***************************************************************************)
HTTP_OK == 200
BodyPrefixLen == 200
RequestTimeout == 30

Request(base_url, dataset_id, api_key, keyword) ==
    [method |-> "GET", base_url |-> rstrip_slash(base_url), dataset_id |-> dataset_id,
     keyword |-> keyword, api_key |-> api_key, timeout |-> RequestTimeout]

\* text[:200]
Prefix(text, n) == SubSeq(text, 1, IF Len(text) < n THEN Len(text) ELSE n)

_fetch_documents(resp) ==
    IF resp.raised
    THEN Raise("RuntimeError", <<"request error: ">> \o resp.err)
    ELSE IF resp.status_code # HTTP_OK
    THEN Raise("RuntimeError",
               <<"HTTP ">> \o IntStr(resp.status_code) \o <<": ">>
                   \o Prefix(resp.text, BodyPrefixLen))
    ELSE IF ~resp.json.ok
    THEN Raise("RuntimeError", <<"unexpected response format: not JSON">>)
    ELSE LET data == resp.json.v
             items == IF data.t = "dict" THEN get(data, PyStr(s_data), PyNone) ELSE PyNone
         IN  IF items.t # "list"
             THEN Raise("RuntimeError", <<"unexpected response format: missing 'data' list">>)
             ELSE Return(items.xs)

(***************************************************************************)
(* _invoke                                                                 *)
(***************************************************************************)

\* Lines 56-68 for one element of the list _fetch_documents returned: the class of
\* the exception the processing raises, or "" when it appends an item.  doc.get
\* (line 58) needs a dict; a truthy doc_metadata is iterated, by line 260 or by
\* lines 225 and 229, and every element of it is asked for .get (line 251).
DocRaises(doc) ==
    IF doc.t # "dict" THEN "AttributeError"
    ELSE LET md == get(doc, PyStr(s_doc_metadata), PyList(<<>>)) IN
         IF ~truthy(md) THEN ""
         ELSE IF md.t \in {"int", "bool"} THEN "TypeError"
         ELSE IF md.t # "list" THEN "AttributeError"
         ELSE IF \E k \in DOMAIN md.xs : md.xs[k].t # "dict" THEN "AttributeError"
         ELSE ""

\* The records of docs before the first whose processing raises (all, when none does).
Processed(docs) ==
    IF \E k \in DOMAIN docs : DocRaises(docs[k]) # ""
    THEN SubSeq(docs, 1, (CHOOSE k \in DOMAIN docs :
                             /\ DocRaises(docs[k]) # ""
                             /\ \A m \in 1..(k - 1) : DocRaises(docs[m]) = "") - 1)
    ELSE docs

\* The exception that ends the loop of lines 56-68 over docs, or "".
LoopRaises(docs) ==
    IF Len(Processed(docs)) < Len(docs) THEN DocRaises(docs[Len(Processed(docs)) + 1]) ELSE ""

\* Lines 56-68 for one document record: the item appended to aggregated.
DocItem(doc, name_filter_set, name_value_map) ==
    LET top == get(doc, PyStr(s_name), PyNone)
        doc_name == IF ~truthy(top)
                    THEN _extract_document_name_from_metadata(
                             get(doc, PyStr(s_doc_metadata), PyList(<<>>)))
                    ELSE top
        md == get(doc, PyStr(s_doc_metadata), PyList(<<>>))
        metadata_list == IF truthy(md) THEN md.xs ELSE <<>>
    IN  [document_name |-> IF truthy(doc_name) THEN doc_name ELSE PyStr(<<>>),
         metadata |-> _filter_metadata(metadata_list, name_filter_set, name_value_map)]

\* The loop of lines 56-68 skipping the records whose filtered metadata is empty.
DocItemsSkipEmpty(docs, name_filter_set, name_value_map) ==
    SelectSeq([k \in DOMAIN docs |-> DocItem(docs[k], name_filter_set, name_value_map)],
              LAMBDA item : item.metadata # <<>>)

\* The loop of lines 56-68 over the records of one response.
RECURSIVE DocItems(_, _, _)
DocItems(docs, name_filter_set, name_value_map) ==
    IF docs = <<>> THEN <<>>
    ELSE <<DocItem(docs[1], name_filter_set, name_value_map)>>
         \o DocItems(Tail(docs), name_filter_set, name_value_map)

\* Line 53: the entry appended to errors.
PairError(ds_id, doc_name_keyword, e) ==
    <<"dataset ">> \o ds_id \o <<", keyword '">> \o doc_name_keyword \o <<"': ">> \o e

\* The nested for loops of lines 43-44: the position after <<i, j>>, with nk keywords.
NextPair(i, j, nk) == IF j < nk THEN <<i, j + 1>> ELSE <<i + 1, 1>>

ErrorMessage(text) == [type |-> "error", message |-> text]
JsonMessage(body) == [type |-> "json", json |-> body]

\* Lines 70-77 with line 72 reporting the errors only when there is one document.
FinalMessagesDropErrors(agg, errs) ==
    IF agg = <<>>
    THEN <<ErrorMessage(<<"no documents found">>)>>
    ELSE <<JsonMessage([documents |-> agg])>>

\* Lines 70-77: the messages yielded once the loops are over.
FinalMessages(agg, errs) ==
    IF agg = <<>>
    THEN IF errs # <<>>
         THEN <<ErrorMessage(<<"no documents found; errors: ">> \o join(<<"; ">>, errs))>>
         ELSE <<ErrorMessage(<<"no documents found">>)>>
    ELSE <<JsonMessage([documents |-> agg])>>

VARIABLES
    tool_parameters,     \* the argument of _invoke
    pc,                  \* "validate", "fetch", "emit", "done"
    dataset_list,        \* locals of _invoke, set by lines 31-36
    api_key,
    document_name_list,
    base_url,
    name_filter_set,
    name_value_map,
    position,            \* <<i, j>>: the pair the loops of lines 43-44 are at
    aggregated,
    errors,
    messages,            \* the messages yielded so far
    escaped,             \* the class of an exception that left _invoke, or ""
    http_log,            \* the requests sent, in order
    responses,           \* what the remote did with each, in the same order
    fn_name,             \* the normaliser called on its own ("" before the call)
    fn_arg,              \* its argument
    fn_native,           \* its outcome on fn_arg
    fn_json              \* its outcome on json.dumps(fn_arg), for a list fn_arg

vars == <<tool_parameters, pc, dataset_list, api_key, document_name_list, base_url,
          name_filter_set, name_value_map, position, aggregated, errors, messages,
          escaped, http_log, responses, fn_name, fn_arg, fn_native, fn_json>>

fn_vars == <<fn_name, fn_arg, fn_native, fn_json>>

\* The first call of lines 31-33 that raises, or a Return when none does.
FirstRaise(outcomes) ==
    IF \E k \in DOMAIN outcomes : outcomes[k].exc # ""
    THEN outcomes[CHOOSE k \in DOMAIN outcomes :
                      outcomes[k].exc # "" /\ \A m \in 1..(k - 1) : outcomes[m].exc = ""]
    ELSE Return(<<>>)

\* Lines 30-42.
Validate ==
    /\ pc = "validate"
    /\ LET ds == _normalize_dataset_list(tool_parameters.dataset_list)
           key == _require_str(tool_parameters.kb_api_key, <<"kb_api_key">>)
           names == _normalize_document_name_list(tool_parameters.document_name)
           url == _normalize_base_url(tool_parameters.kb_base_url)
           filter == _parse_metadata_filter(tool_parameters.metadata_filter)
           e == FirstRaise(<<ds, key, names>>)
       IN  IF e.exc = ""
           THEN /\ dataset_list' = ds.v
                /\ api_key' = key.v
                /\ document_name_list' = names.v
                /\ base_url' = url
                /\ name_filter_set' = filter[1]
                /\ name_value_map' = filter[2]
                /\ pc' = "fetch"
                /\ UNCHANGED <<messages, escaped>>
           ELSE /\ IF IsInstance(e.exc, "ValueError")
                   THEN messages' = Append(messages, ErrorMessage(e.msg)) /\ escaped' = escaped
                   ELSE escaped' = e.exc /\ messages' = messages
                /\ pc' = "done"
                /\ UNCHANGED <<dataset_list, api_key, document_name_list, base_url,
                               name_filter_set, name_value_map>>
    /\ UNCHANGED <<tool_parameters, position, aggregated, errors, http_log, responses>>
    /\ UNCHANGED fn_vars

\* One iteration of the inner loop, lines 45-68, the remote answering resp.
FetchPair(resp) ==
    /\ pc = "fetch"
    /\ LET ds_id == dataset_list[position[1]]
           doc_name_keyword == document_name_list[position[2]]
           docs == _fetch_documents(resp)
           next == NextPair(position[1], position[2], Len(document_name_list))
       IN  /\ http_log' = Append(http_log, Request(base_url, ds_id, api_key, doc_name_keyword))
           /\ responses' = Append(responses, resp)
           /\ IF docs.exc = "" /\ LoopRaises(docs.v) # ""
              THEN \* the loop of lines 56-68 is outside the try of lines 45-54
                   /\ aggregated' = aggregated
                          \o DocItems(Processed(docs.v), name_filter_set, name_value_map)
                   /\ escaped' = LoopRaises(docs.v)
                   /\ pc' = "done"
                   /\ UNCHANGED <<errors, position>>
              ELSE IF docs.exc = ""
              THEN /\ aggregated' = aggregated
                                    \o DocItems(docs.v, name_filter_set, name_value_map)
                   /\ UNCHANGED <<errors, escaped>>
                   /\ position' = next
                   /\ pc' = IF next[1] > Len(dataset_list) THEN "emit" ELSE "fetch"
              ELSE IF IsInstance(docs.exc, "Exception")
              THEN /\ errors' = Append(errors, PairError(ds_id, doc_name_keyword, docs.msg))
                   /\ UNCHANGED <<aggregated, escaped>>
                   /\ position' = next
                   /\ pc' = IF next[1] > Len(dataset_list) THEN "emit" ELSE "fetch"
              ELSE /\ escaped' = docs.exc
                   /\ pc' = "done"
                   /\ UNCHANGED <<aggregated, errors, position>>
    /\ UNCHANGED <<tool_parameters, dataset_list, api_key, document_name_list, base_url,
                   name_filter_set, name_value_map, messages>>
    /\ UNCHANGED fn_vars

\* Lines 70-77.
Emit ==
    /\ pc = "emit"
    /\ messages' = messages \o FinalMessages(aggregated, errors)
    /\ pc' = "done"
    /\ UNCHANGED <<tool_parameters, dataset_list, api_key, document_name_list, base_url,
                   name_filter_set, name_value_map, position, aggregated, errors,
                   escaped, http_log, responses>>
    /\ UNCHANGED fn_vars

(***************************************************************************)
(* Inputs: tool_parameters                                                 *)
(***************************************************************************)
c_d1 == <<"d", "1">>
c_d2 == <<"d", "2">>
c_k1 == <<"k", "1">>
c_k2 == <<"k", "2">>
c_key == <<"k", "e", "y">>
c_author == <<"a", "u", "t", "h", "o", "r">>
c_Al == <<"A", "l">>
c_web == <<"w", "e", "b">>
c_report_pdf == <<"r", "e", "p", "o", "r", "t", ".", "p", "d", "f">>

\* tool_parameters.get(name) is None for an absent key: a parameter that is not
\* passed is PyNone here.
Params(ds, key, names, filter, url) ==
    [dataset_list |-> ds, kb_api_key |-> key, document_name |-> names,
     metadata_filter |-> filter, kb_base_url |-> url]

DatasetListSamples ==
    { PyNone, PyStr(<<>>), PyStr(<<" ", " ">>), PyList(<<>>),
      PyList(<<PyStr(<<>>), PyStr(<<" ">>)>>),
      PyList(<<PyStr(c_d1)>>),
      PyStr(<<"[", "\"", "d", "1", "\"", "]">>),
      PyStr(<<"[", "]">>),
      PyStr(<<",">>),
      PyInt(7) }

KbApiKeySamples ==
    { PyNone, PyStr(<<>>), PyStr(<<" ">>), PyStr(c_key), PyInt(7), PyList(<<>>) }

DocumentNameSamples ==
    { PyNone, PyStr(<<>>), PyStr(<<" ", "\n">>), PyList(<<>>), PyList(<<PyStr(<<" ">>)>>),
      PyStr(c_k1), PyList(<<PyStr(<<" ">> \o c_k1)>>) }

\* Every combination of the three required parameters, present or not, blank or not.
ValidationParams ==
    { Params(ds, key, names, PyNone, PyNone) :
        ds \in DatasetListSamples, key \in KbApiKeySamples, names \in DocumentNameSamples }

AuthorSourceNames == PyList(<<PyStr(c_author), PyStr(s_source)>>)
AuthorSourceValues ==
    PyDict(<< <<PyStr(c_author), PyStr(c_Al)>>, <<PyStr(s_source), PyStr(c_web)>> >>)

\* Valid parameters with several datasets and keywords, and every kind of filter.
FetchParams ==
    { Params(PyList(<<PyStr(c_d1), PyStr(c_d2)>>), PyStr(c_key),
             PyList(<<PyStr(c_k1), PyStr(c_k2)>>), PyNone, PyNone),
      Params(PyStr(<<" ", "d", "1", " ", ",", "d", "2", "\n">>), PyStr(c_key), PyStr(c_k1),
             AuthorSourceNames, PyNone),
      Params(PyList(<<PyStr(c_d1)>>), PyStr(c_key), PyStr(c_k1 \o <<FWComma>> \o c_k2),
             AuthorSourceValues, PyStr(<<"e", "x", "a", "m", "p", "l", "e", ".", "c", "o", "m">>)),
      Params(PyList(<<PyStr(c_d1), PyStr(c_d1)>>), PyStr(c_key), PyStr(c_k1),
             PyStr(<<"a", "u", "t", "h", "o", "r", "=", "A", "l">>), PyStr(<<"h", "t", "t", "p", "s", ":", "/", "/", "x", "/">>)),
      Params(PyList(<<PyStr(c_d1)>>), PyStr(c_key), PyStr(c_k1),
             PyStr(<<"[", "\"", "s", "o", "u", "r", "c", "e", "\"", ",", " ", "\"", "X", "\"", "]">>), PyStr(<<" ">>)) }

(***************************************************************************)
(* Inputs: the behaviour of the remote endpoint                            *)
(***************************************************************************)

\* The most records one response lists.
MaxDocs == 2

SeqsUpTo(S, n) == UNION {[1..k -> S] : k \in 0..n}

Entry(name, value) == PyDict(<< <<PyStr(s_name), name>>, <<PyStr(s_value), value>> >>)
EntryWithId(id, name, value) ==
    PyDict(<< <<PyStr(s_id), id>>, <<PyStr(s_name), name>>, <<PyStr(s_value), value>> >>)

\* A record with a top-level name, a plain entry, one with a reserved name and one
\* with a built-in id.
NamedDoc ==
    PyDict(<< <<PyStr(s_name), PyStr(<<"A">>)>>,
              <<PyStr(s_doc_metadata),
                PyList(<<Entry(PyStr(c_author), PyStr(c_Al)),
                         Entry(PyStr(s_source), PyStr(c_web)),
                         EntryWithId(PyStr(<<" ", "B", "u", "i", "l", "t", "-", "I", "n">>),
                                     PyStr(<<"X">>), PyInt(1))>>)>> >>)

\* A record without a top-level name whose only entry is the reserved document_name.
UnnamedDoc ==
    PyDict(<< <<PyStr(s_doc_metadata),
                PyList(<<Entry(PyStr(s_document_name), PyStr(c_report_pdf))>>)>> >>)

DocPool == {NamedDoc, UnnamedDoc}

Response(raised, err, status_code, text, json) ==
    [raised |-> raised, err |-> err, status_code |-> status_code, text |-> text, json |-> json]

NoJson == [ok |-> FALSE, v |-> PyNone]
Json(v) == [ok |-> TRUE, v |-> v]

ConnectionFailed == Response(TRUE, <<"connection refused">>, 0, <<>>, NoJson)
HttpNotFound == Response(FALSE, <<>>, 404, <<"n", "o">>, NoJson)
HttpErrorLongBody ==
    Response(FALSE, <<>>, 500, [k \in 1..(BodyPrefixLen + 1) |-> "x"], NoJson)
NotJson == Response(FALSE, <<>>, HTTP_OK, <<"<", "p", ">">>, NoJson)
NoDataField ==
    Response(FALSE, <<>>, HTTP_OK, <<>>, Json(PyDict(<< <<PyStr(<<"t">>), PyInt(0)>> >>)))
JsonNotDict == Response(FALSE, <<>>, HTTP_OK, <<>>, Json(PyList(<<>>)))
DocsResponse(docs) ==
    Response(FALSE, <<>>, HTTP_OK, <<>>, Json(PyDict(<< <<PyStr(s_data), PyList(docs)>> >>)))

FailedResponses ==
    {ConnectionFailed, HttpNotFound, HttpErrorLongBody, NotJson, NoDataField, JsonNotDict}

\* Status 200 and a 'data' list, with an element that is no record: null after
\* a record, doc_metadata a number, a metadata entry that is a string.
NullAfterRecord == DocsResponse(<<NamedDoc, PyNone>>)
MetadataNotList ==
    DocsResponse(<<PyDict(<< <<PyStr(s_name), PyStr(<<"A">>)>>,
                             <<PyStr(s_doc_metadata), PyInt(5)>> >>)>>)
EntryNotDict ==
    DocsResponse(<<PyDict(<< <<PyStr(s_doc_metadata),
                               PyList(<<Entry(PyStr(c_author), PyStr(c_Al)),
                                        PyStr(<<"x">>)>>)>> >>)>>)

MalformedResponses == {NullAfterRecord, MetadataNotList, EntryNotDict}

Responses ==
    FailedResponses \cup MalformedResponses
        \cup {DocsResponse(docs) : docs \in SeqsUpTo(DocPool, MaxDocs)}

(***************************************************************************)
(* The specification of one invocation                                     *)
(***************************************************************************)
InitWith(params) ==
    /\ tool_parameters \in params
    /\ pc = "validate"
    /\ dataset_list = <<>>
    /\ api_key = <<>>
    /\ document_name_list = <<>>
    /\ base_url = <<>>
    /\ name_filter_set = PyNone
    /\ name_value_map = PyNone
    /\ position = <<1, 1>>
    /\ aggregated = <<>>
    /\ errors = <<>>
    /\ messages = <<>>
    /\ escaped = ""
    /\ http_log = <<>>
    /\ responses = <<>>
    /\ fn_name = ""
    /\ fn_arg = PyNone
    /\ fn_native = <<>>
    /\ fn_json = <<>>

Init == InitWith(ValidationParams \cup FetchParams)

Next ==
    \/ Validate
    \/ \E resp \in Responses : FetchPair(resp)
    \/ Emit

Spec == Init /\ [][Next]_vars

(***************************************************************************)
(* The specification of one invocation on one record (SpecDoc): one        *)
(* dataset, one keyword, every kind of filter, and a response that lists   *)
(* one record drawn from every shape of record.                            *)
(***************************************************************************)

\* The most metadata entries of a record.
MaxEntries == 2

c_a == <<"a">>
c_c == <<"c">>
c_n == <<"n">>

EntryPool ==
    { Entry(PyStr(c_author), PyStr(c_Al)),
      Entry(PyStr(<<" ">> \o c_author \o <<" ">>), PyStr(<<" ">> \o c_Al \o <<"\n">>)),
      Entry(PyStr(c_a), PyNone),
      Entry(PyStr(c_c), PyBool(TRUE)),
      Entry(PyStr(c_n), PyInt(10)),
      Entry(PyStr(s_source), PyStr(c_web)),
      EntryWithId(PyStr(<<"B", "U", "I", "L", "T", "_", "I", "N">>), PyStr(c_author), PyStr(c_Al)),
      Entry(PyStr(s_document_name), PyStr(c_report_pdf)),
      Entry(PyStr(s_document_name), PyNone),
      Entry(PyStr(s_document_name), PyInt(5)),
      PyDict(<< <<PyStr(s_value), PyStr(c_Al)>> >>) }

\* The top-level name: absent, null, empty, or a name.
TopNames == {PyAbsent, PyNone, PyStr(<<>>), PyStr(<<"A">>)}

\* doc_metadata: absent, null, or a list of entries.
MetadataLists ==
    {PyAbsent, PyNone} \cup {PyList(es) : es \in SeqsUpTo(EntryPool, MaxEntries)}

MakeDoc(name, md) ==
    PyDict((IF name.t = "absent" THEN <<>> ELSE << <<PyStr(s_name), name>> >>)
           \o (IF md.t = "absent" THEN <<>> ELSE << <<PyStr(s_doc_metadata), md>> >>))

DocResponses == {DocsResponse(<<MakeDoc(name, md)>>) : name \in TopNames, md \in MetadataLists}

NamesFilter == PyList(<<PyStr(c_author), PyStr(s_document_name), PyStr(c_a)>>)
ValuesFilterA ==
    PyDict(<< <<PyStr(c_author), PyStr(c_Al)>>, <<PyStr(c_a), PyStr(<<>>)>>,
              <<PyStr(c_c), PyStr(<<"T", "r", "u", "e">>)>>, <<PyStr(c_n), PyStr(<<"1", "0">>)>>,
              <<PyStr(s_source), PyStr(c_web)>> >>)
ValuesFilterB ==
    PyDict(<< <<PyStr(c_author), PyStr(<<"a", "l">>)>>, <<PyStr(c_a), PyNone>>,
              <<PyStr(c_c), PyStr(<<"t", "r", "u", "e">>)>>, <<PyStr(c_n), PyInt(10)>> >>)
ValuesFilterText == PyStr(<<"a", "u", "t", "h", "o", "r", " ", "=", " ", "A", "l", " ", ";", " ", "a", "=", "\n", "n", "=", "1", "0">>)

DocParams ==
    { Params(PyList(<<PyStr(c_d1)>>), PyStr(c_key), PyStr(c_k1), filter, PyNone) :
        filter \in {PyNone, NamesFilter, ValuesFilterA, ValuesFilterB, ValuesFilterText} }

InitDoc == InitWith(DocParams)

NextDoc ==
    \/ Validate
    \/ \E resp \in DocResponses : FetchPair(resp)
    \/ Emit

SpecDoc == InitDoc /\ [][NextDoc]_vars

(***************************************************************************)
(* The specification of one call of a normaliser (SpecNormalize): the      *)
(* function is applied to a value and, when the value is a list, to the    *)
(* JSON text of that list as well.                                         *)
(***************************************************************************)

\* The longest list passed to a normaliser.
MaxListLen == 2

ListElements ==
    { PyStr(<<>>), PyStr(<<" ">>), PyStr(c_a), PyStr(<<" ", "b", " ">>),
      PyStr(<<"a", ",", "b">>), PyInt(1), PyNone }

StringArgs ==
    { PyStr(<<>>), PyStr(<<" ", "\n">>), PyStr(<<",">>), PyStr(<<"=">>), PyStr(<<"=", "x">>),
      PyStr(<<"a", "=">>), PyStr(<<"a", ",", "b">>), PyStr(<<"a", FWComma, " ", "b">>),
      PyStr(<<"a", "=", "1", ",", "b", "=", "2">>), PyStr(<<"a", "=", "1", ";", "b", " ", "=", " ", "2">>),
      PyStr(<<"[", "]">>), PyStr(<<"{", "}">>), PyStr(<<"{", "a", "}">>),
      PyStr(<<"{", "\"", "a", "\"", ":", "\"", "1", "\"", "}">>), PyStr(<<"{", "\"", " ", "\"", ":", " ", "\"", "x", "\"", "}">>), PyStr(<<"[", "\"", "a", "\"", ",", " ", "\"", " ", "\"", "]">>), PyStr(<<"[", "\"", "\"", "]">>) }

DictArgs ==
    { PyDict(<<>>), PyDict(<< <<PyStr(c_a), PyStr(<<"1">>)>> >>),
      PyDict(<< <<PyStr(<<" ">>), PyStr(<<"x">>)>> >>),
      PyDict(<< <<PyStr(c_a), PyNone>>, <<PyStr(<<" ", "b">>), PyInt(2)>> >>) }

NormalizeArgs ==
    {PyNone, PyInt(7)} \cup StringArgs \cup DictArgs
        \cup {PyList(xs) : xs \in SeqsUpTo(ListElements, MaxListLen)}

\* The argument as the caller would pass it in JSON: the text of a list, and the
\* value itself when it is no list.
AsJsonText(val) == IF val.t = "list" THEN PyStr(dumps(val)) ELSE val

MainIdle ==
    /\ tool_parameters = Params(PyNone, PyNone, PyNone, PyNone, PyNone)
    /\ pc = "idle"
    /\ dataset_list = <<>>
    /\ api_key = <<>>
    /\ document_name_list = <<>>
    /\ base_url = <<>>
    /\ name_filter_set = PyNone
    /\ name_value_map = PyNone
    /\ position = <<1, 1>>
    /\ aggregated = <<>>
    /\ errors = <<>>
    /\ messages = <<>>
    /\ escaped = ""
    /\ http_log = <<>>
    /\ responses = <<>>

main_vars == <<tool_parameters, pc, dataset_list, api_key, document_name_list, base_url,
               name_filter_set, name_value_map, position, aggregated, errors, messages,
               escaped, http_log, responses>>

InitNormalize ==
    /\ MainIdle
    /\ fn_name = ""
    /\ fn_arg \in NormalizeArgs
    /\ fn_native = <<>>
    /\ fn_json = <<>>

CallNormalizeDatasetList ==
    /\ fn_name = ""
    /\ fn_name' = "_normalize_dataset_list"
    /\ fn_native' = _normalize_dataset_list(fn_arg)
    /\ fn_json' = _normalize_dataset_list(AsJsonText(fn_arg))
    /\ UNCHANGED <<fn_arg, main_vars>>

CallNormalizeDocumentNameList ==
    /\ fn_name = ""
    /\ fn_name' = "_normalize_document_name_list"
    /\ fn_native' = _normalize_document_name_list(fn_arg)
    /\ fn_json' = _normalize_document_name_list(AsJsonText(fn_arg))
    /\ UNCHANGED <<fn_arg, main_vars>>

CallParseMetadataFilter ==
    /\ fn_name = ""
    /\ fn_name' = "_parse_metadata_filter"
    /\ fn_native' = _parse_metadata_filter(fn_arg)
    /\ fn_json' = _parse_metadata_filter(AsJsonText(fn_arg))
    /\ UNCHANGED <<fn_arg, main_vars>>

NextNormalize ==
    \/ CallNormalizeDatasetList
    \/ CallNormalizeDocumentNameList
    \/ CallParseMetadataFilter

SpecNormalize == InitNormalize /\ [][NextNormalize]_vars

(***************************************************************************)
(* Properties of one invocation (Spec)                                     *)
(***************************************************************************)

\* True once the fetch loop has run to its end and the result was emitted.
Finished == pc = "done" /\ http_log # <<>> /\ escaped = ""

\* The remote answered 200 with a 'data' list holding an element that is no
\* document record, so that lines 56-68 raise.
Malformed(resp) ==
    /\ _fetch_documents(resp).exc = ""
    /\ LoopRaises(_fetch_documents(resp).v) # ""

\* C1: every invocation ends, no exception leaves it, and it yields exactly one
\* message, an error message or a JSON message {"documents": [...]}; before the
\* end it has yielded none.
C1_ExactlyOneMessage ==
    /\ escaped = ""
    /\ \/ pc = "done"
       \/ pc = "validate"      \* Validate has no other guard
       \/ ENABLED ((\E resp \in Responses : FetchPair(resp)) \/ Emit)
    /\ pc # "done" => messages = <<>>
    /\ pc = "done" =>
         /\ Len(messages) = 1
         /\ \/ /\ messages[1].type = "error"
               /\ DOMAIN messages[1] = {"type", "message"}
            \/ /\ messages[1].type = "json"
               /\ DOMAIN messages[1] = {"type", "json"}
               /\ DOMAIN messages[1].json = {"documents"}

\* C1, the part that holds: an exception leaves the invocation only from lines
\* 56-68, on the response just received, as an AttributeError or a TypeError, with
\* nothing yielded; every other invocation ends with exactly one message.
C1_EscapeOnlyOnMalformedRecord ==
    /\ escaped # "" =>
         /\ pc = "done" /\ messages = <<>>
         /\ escaped \in {"AttributeError", "TypeError"}
         /\ responses # <<>> /\ Malformed(responses[Len(responses)])
    /\ (pc = "done" /\ escaped = "") =>
         /\ Len(messages) = 1
         /\ messages[1].type \in {"error", "json"}
         /\ \A k \in DOMAIN responses : ~Malformed(responses[k])

\* A finished invocation in which one pair failed at the transport, one returned a
\* body that is no JSON, and the result is a JSON message.
C1_MixedOutcomesReached ==
    /\ pc = "done"
    /\ ConnectionFailed \in Range(responses)
    /\ NotJson \in Range(responses)
    /\ Len(messages) = 1
    /\ messages[1].type = "json"


RequiredParams == <<"dataset_list", "kb_api_key", "document_name">>

\* None, an empty or whitespace-only string, or a list with no non-blank element.
Blank(val) ==
    \/ val.t = "none"
    \/ val.t = "str" /\ strip(val.s) = <<>>
    \/ val.t = "list" /\ \A k \in DOMAIN val.xs : strip(str(val.xs[k])) = <<>>

\* The same, but for kb_api_key a list is not counted as blank.
BlankRequired(k) ==
    LET val == tool_parameters[RequiredParams[k]] IN
    IF RequiredParams[k] = "kb_api_key" THEN Blank(val) /\ val.t # "list" ELSE Blank(val)

\* The outcome of validating the k-th required parameter.
Validated(k) ==
    CASE k = 1 -> _normalize_dataset_list(tool_parameters.dataset_list)
      [] k = 2 -> _require_str(tool_parameters.kb_api_key, <<"kb_api_key">>)
      [] k = 3 -> _normalize_document_name_list(tool_parameters.document_name)

\* The invocation has ended with the single error message naming the k-th parameter.
RejectedNaming(k) ==
    /\ Len(messages) = 1
    /\ messages[1].type = "error"
    /\ RequiredParams[k] \in Range(messages[1].message)

\* C2 as stated: a required parameter that is None, blank or a list of blanks means
\* no HTTP request at all and, at the end, a single error message naming it (or a
\* parameter validated before it); a request is sent only after validation.
C2_AsStated ==
    /\ \A k \in 1..3 :
         Blank(tool_parameters[RequiredParams[k]]) =>
           /\ http_log = <<>>
           /\ pc \in {"validate", "done"}
           /\ pc = "done" => \E m \in 1..k : RejectedNaming(m)
    /\ http_log # <<>> => pc # "validate"

\* C2 amended: the same with a list-valued kb_api_key not counted as blank, and
\* the message naming the first parameter that fails validation: the blank one
\* when every parameter before it passes, otherwise an earlier one.
C2_BlankRejectedBeforeAnyRequest ==
    /\ \A k \in 1..3 :
         BlankRequired(k) =>
           /\ http_log = <<>>
           /\ pc \in {"validate", "done"}
           /\ pc = "done" =>
                /\ \E m \in 1..k : RejectedNaming(m)
                /\ (\A m \in 1..(k - 1) : Validated(m).exc = "") => RejectedNaming(k)
    /\ http_log # <<>> =>
         /\ pc # "validate"
         /\ \A k \in 1..3 : ~BlankRequired(k) /\ Validated(k).exc = ""

\* C2 witness: dataset_list passes, kb_api_key is whitespace only, document_name is
\* missing; the invocation has ended with the error naming kb_api_key.
C2_Witness ==
    /\ pc = "done"
    /\ ~Blank(tool_parameters.dataset_list)
    /\ tool_parameters.kb_api_key = PyStr(<<" ">>)
    /\ tool_parameters.document_name = PyNone
    /\ RejectedNaming(2)
    /\ http_log = <<>>


\* The (dataset, keyword) pairs in the order outer = dataset list, inner = keyword list.
PairSeq ==
    LET nk == Len(document_name_list) IN
    [n \in 1..(Len(dataset_list) * nk) |->
        <<dataset_list[((n - 1) \div nk) + 1], document_name_list[((n - 1) % nk) + 1]>>]

\* Whether the remote's behaviour makes the request fail.
Failed(resp) ==
    \/ resp.raised
    \/ resp.status_code # 200
    \/ ~resp.json.ok
    \/ resp.json.v.t # "dict"
    \/ get(resp.json.v, PyStr(s_data), PyNone).t # "list"

\* The subsequence of 1..n of the requests that failed.
RECURSIVE FailedUpTo(_)
FailedUpTo(n) ==
    IF n = 0 THEN <<>>
    ELSE FailedUpTo(n - 1) \o (IF Failed(responses[n]) THEN <<n>> ELSE <<>>)

\* The requests sent are a prefix of the pairs in nested order, one per pair, and
\* errors holds one "dataset d, keyword 'k': reason" per failed request, in
\* request order.
RequestsFollowPairs ==
    LET n == Len(http_log)
        failed == FailedUpTo(n)
    IN  /\ Len(responses) = n
        /\ n <= Len(PairSeq)
        /\ \A k \in 1..n :
             /\ http_log[k].dataset_id = PairSeq[k][1]
             /\ http_log[k].keyword = PairSeq[k][2]
        /\ pc = "fetch" =>
             n = (position[1] - 1) * Len(document_name_list) + (position[2] - 1)
        /\ Len(errors) = Len(failed)
        /\ \A k \in DOMAIN failed :
             errors[k] = <<"dataset ">> \o PairSeq[failed[k]][1] \o <<", keyword '">>
                           \o PairSeq[failed[k]][2] \o <<"': ">>
                           \o _fetch_documents(responses[failed[k]]).msg

\* C3: after successful validation one request is sent for every pair, in nested
\* order, whatever failed: an invocation that has sent a request ends only when
\* every pair was requested; errors holds one entry per failed request, in order.
C3_OneRequestPerPairInOrder ==
    /\ RequestsFollowPairs
    /\ (pc = "done" /\ http_log # <<>>) => Len(http_log) = Len(PairSeq)

\* C3, the part that holds: the same for the invocations no exception leaves.
C3_AllPairsUnlessEscaped ==
    /\ RequestsFollowPairs
    /\ (pc = "emit" \/ Finished) => Len(http_log) = Len(PairSeq)

\* Two datasets and two keywords, the first and third requests failed, the second
\* and fourth returned records, and the loop is over.
C3_IsolationReached ==
    /\ Finished
    /\ Len(dataset_list) = 2 /\ Len(document_name_list) = 2
    /\ Len(http_log) = 4
    /\ Failed(responses[1]) /\ ~Failed(responses[2])
    /\ Failed(responses[3]) /\ ~Failed(responses[4])
    /\ Len(errors) = 2
    /\ aggregated # <<>>

\* C4: when the loop is over, an empty aggregate with failures gives the error
\* "no documents found; errors: " followed by the error strings joined by "; ", an
\* empty aggregate without failures gives "no documents found", and a non-empty one
\* gives the JSON message, which carries the documents and nothing of errors.
C4_FinalMessage ==
    Finished =>
      /\ Len(messages) = 1
      /\ (aggregated = <<>> /\ errors # <<>>) =>
           messages[1] = [type |-> "error",
                          message |-> <<"no documents found; errors: ">> \o join(<<"; ">>, errors)]
      /\ (aggregated = <<>> /\ errors = <<>>) =>
           messages[1] = [type |-> "error", message |-> <<"no documents found">>]
      /\ aggregated # <<>> =>
           messages[1] = [type |-> "json", json |-> [documents |-> aggregated]]

\* C4 witness: every one of four pairs failed and the error lists the four.
C4_Witness ==
    /\ Finished
    /\ aggregated = <<>>
    /\ Len(errors) = 4
    /\ messages[1].type = "error"

\* Built-in as the documentation of the data defines it: the id, trimmed and in
\* lower case, is built-in or built_in, or the trimmed name is reserved.
BuiltInEntry(m) ==
    \/ lower(strip(str(get(m, PyStr(s_id), PyStr(<<>>)))))
         \in {s_built_in_dash, s_built_in_underscore}
    \/ strip(str(get(m, PyStr(s_name), PyStr(<<>>))))
         \in {s_document_name, s_uploader, s_upload_date, s_last_update_date, s_source}

\* C7: no metadata entry of an aggregated document, and so of a success payload,
\* is built-in, whatever the filter.
C7_NoBuiltInInOutput ==
    /\ \A k \in DOMAIN aggregated :
         \A e \in DOMAIN aggregated[k].metadata : ~BuiltInEntry(aggregated[k].metadata[e])
    /\ \A k \in DOMAIN messages :
         messages[k].type = "json" =>
           \A d \in DOMAIN messages[k].json.documents :
             \A e \in DOMAIN messages[k].json.documents[d].metadata :
               ~BuiltInEntry(messages[k].json.documents[d].metadata[e])

\* C7 witness: the filter names the reserved field "source", the remote returned a
\* record with a "source" entry and an entry with a built-in id, and the payload
\* has a document with some metadata left.
C7_Witness ==
    /\ Finished
    /\ name_filter_set.t = "set" /\ s_source \in name_filter_set.xs
    /\ \E k \in DOMAIN responses :
         ~Failed(responses[k]) /\ NamedDoc \in Range(get(responses[k].json.v, PyStr(s_data), PyNone).xs)
    /\ messages[1].type = "json"
    /\ \E d \in DOMAIN messages[1].json.documents :
         messages[1].json.documents[d].metadata # <<>>

\* The items of the records of the first n responses, failed ones giving none.
RECURSIVE ItemsUpTo(_)
ItemsUpTo(n) ==
    IF n = 0 THEN <<>>
    ELSE ItemsUpTo(n - 1)
         \o (IF Failed(responses[n]) THEN <<>>
             ELSE LET docs == get(responses[n].json.v, PyStr(s_data), PyNone).xs IN
                  [k \in DOMAIN docs |-> DocItem(docs[k], name_filter_set, name_value_map)])

RECURSIVE RecordCount(_)
RecordCount(n) ==
    IF n = 0 THEN 0
    ELSE RecordCount(n - 1)
         + (IF Failed(responses[n]) THEN 0
            ELSE Len(get(responses[n].json.v, PyStr(s_data), PyNone).xs))

\* C9: aggregated is the concatenation, in request order, of one item per record
\* of every successful response, in the order of the response; its length is the
\* sum of the record counts of the successful responses.
C9_AggregatedIsConcatenation ==
    /\ escaped = "" =>
         /\ aggregated = ItemsUpTo(Len(responses))
         /\ Len(aggregated) = RecordCount(Len(responses))
    /\ \A k \in DOMAIN messages :
         messages[k].type = "json" =>
           /\ Len(responses) = Len(PairSeq)
           /\ messages[k].json.documents = ItemsUpTo(Len(responses))
           /\ Len(messages[k].json.documents) = RecordCount(Len(responses))

\* C9 witness: the loop is over, a request failed, and the aggregate holds an item
\* with empty metadata and two items with the same document name.
C9_Witness ==
    /\ Finished
    /\ errors # <<>>
    /\ \E k \in DOMAIN aggregated : aggregated[k].metadata = <<>>
    /\ \E k, m \in DOMAIN aggregated :
         k # m /\ aggregated[k].document_name = aggregated[m].document_name


(***************************************************************************)
(* Properties of one invocation on one record (SpecDoc)                    *)
(***************************************************************************)

\* The record the remote returned, and its metadata entries.
TheDoc == get(responses[1].json.v, PyStr(s_data), PyNone).xs[1]
TheEntries ==
    LET md == get(TheDoc, PyStr(s_doc_metadata), PyList(<<>>)) IN
    IF md.t = "list" THEN md.xs ELSE <<>>

EntryName(m) == strip(str(get(m, PyStr(s_name), PyStr(<<>>))))
EntryValue(m) == get(m, PyStr(s_value), PyNone)

\* C8 as stated, for the entries that are not built-in and with the name trimmed:
\* kept iff the name is a key and str(value).strip() is the expected value, null
\* included.
C8_AsStated ==
    (responses # <<>> /\ name_value_map.t = "map") =>
      aggregated[1].metadata =
        SelectSeq(TheEntries,
                  LAMBDA m : /\ ~BuiltInEntry(m)
                             /\ EntryName(m) \in DOMAIN name_value_map.m
                             /\ strip(str(EntryValue(m))) = name_value_map.m[EntryName(m)])

\* C8 amended: an entry is kept iff it is not built-in, its trimmed name is a key
\* of the map, and its value text is the expected value exactly, the value text
\* being str(value).strip() for a value that is not null and "" for null.
C8_KeptIffValueTextMatches ==
    (responses # <<>> /\ name_value_map.t = "map") =>
      aggregated[1].metadata =
        SelectSeq(TheEntries,
                  LAMBDA m : /\ ~BuiltInEntry(m)
                             /\ EntryName(m) \in DOMAIN name_value_map.m
                             /\ (IF EntryValue(m).t = "none" THEN <<>>
                                 ELSE strip(str(EntryValue(m))))
                                  = name_value_map.m[EntryName(m)])

\* C8 witness: the map expects "" for "a" and "10" for "n"; the record holds a = null
\* and n = 10 (an int), and both entries are in the output.
C8_Witness ==
    /\ Finished
    /\ name_value_map.t = "map"
    /\ c_a \in DOMAIN name_value_map.m /\ name_value_map.m[c_a] = <<>>
    /\ TheEntries = <<Entry(PyStr(c_a), PyNone), Entry(PyStr(c_n), PyInt(10))>>
    /\ aggregated[1].metadata = TheEntries

\* The value of the first entry whose name is exactly "document_name".
FirstDocumentNameValue ==
    LET named == {e \in DOMAIN TheEntries :
                    get(TheEntries[e], PyStr(s_name), PyNone) = PyStr(s_document_name)}
        first == CHOOSE e \in named : \A f \in named : e <= f
    IN  EntryValue(TheEntries[first])

HasDocumentNameEntry ==
    \E e \in DOMAIN TheEntries :
       get(TheEntries[e], PyStr(s_name), PyNone) = PyStr(s_document_name)

\* C10 as stated: the top-level name when truthy, else the stringified value of the
\* entry named document_name when there is one, else "".
C10_AsStated ==
    responses # <<>> =>
      aggregated[1].document_name =
        (IF truthy(get(TheDoc, PyStr(s_name), PyNone)) THEN get(TheDoc, PyStr(s_name), PyNone)
         ELSE IF HasDocumentNameEntry THEN PyStr(str(FirstDocumentNameValue))
         ELSE PyStr(<<>>))

\* The record of the example: no top-level name, author = Al, document_name = report.pdf.
ExampleDoc ==
    MakeDoc(PyAbsent, PyList(<<Entry(PyStr(c_author), PyStr(c_Al)),
                               Entry(PyStr(s_document_name), PyStr(c_report_pdf))>>))

\* C10 amended: as stated, except that a null value of the first document_name
\* entry gives "" and not the text of None; the example gives report.pdf and
\* the metadata [author = Al].
C10_DocumentNameResolution ==
    responses # <<>> =>
      /\ aggregated[1].document_name =
           (IF truthy(get(TheDoc, PyStr(s_name), PyNone)) THEN get(TheDoc, PyStr(s_name), PyNone)
            ELSE IF HasDocumentNameEntry /\ FirstDocumentNameValue.t # "none"
            THEN PyStr(str(FirstDocumentNameValue))
            ELSE PyStr(<<>>))
      /\ (TheDoc = ExampleDoc /\ tool_parameters.metadata_filter = PyNone) =>
           aggregated[1] = [document_name |-> PyStr(c_report_pdf),
                            metadata |-> <<Entry(PyStr(c_author), PyStr(c_Al))>>]

\* C10 witness: the example, emitted.
C10_Witness ==
    /\ Finished
    /\ TheDoc = ExampleDoc
    /\ tool_parameters.metadata_filter = PyNone
    /\ messages[1].type = "json"
    /\ messages[1].json.documents[1].document_name = PyStr(c_report_pdf)

(***************************************************************************)
(* Properties of the normalisers (SpecNormalize)                           *)
(***************************************************************************)

\* C5 as stated: a list and the JSON text of that list have the same outcome, the
\* same canonical value or a validation error in both cases.
C5_AsStated ==
    (fn_name # "" /\ fn_arg.t = "list") => fn_native = fn_json

\* None or a blank string: no filter.
AbsentFilter(val) == val.t = "none" \/ (val.t = "str" /\ strip(val.s) = <<>>)
SuppliedFilter(val) == val.t \in {"list", "dict", "str"} /\ ~AbsentFilter(val)

\* C6 as stated: never both outputs; none for an absent filter; exactly one for a
\* supplied one.
C6_AsStated ==
    fn_name = "_parse_metadata_filter" =>
      /\ ~(fn_native[1].t # "none" /\ fn_native[2].t # "none")
      /\ AbsentFilter(fn_arg) => (fn_native[1].t = "none" /\ fn_native[2].t = "none")
      /\ SuppliedFilter(fn_arg) => (fn_native[1].t # "none") # (fn_native[2].t # "none")

\* Whether a supplied filter holds a non-blank name or key.
RECURSIVE HoldsName(_)
HoldsName(val) ==
    IF val.t = "list" THEN \E k \in DOMAIN val.xs : strip(str(val.xs[k])) # <<>>
    ELSE IF val.t = "dict" THEN \E k \in DOMAIN val.kv : strip(str(val.kv[k][1])) # <<>>
    ELSE LET s == strip(val.s)
             commas == replace(replace(replace(replace(s, "\n", ","), FWSemi, ","),
                                       FWComma, ","), ";", ",")
             tokens == split(commas, ",")
             plain == split(replace(replace(s, "\n", ","), FWComma, ","), ",")
         IN  IF LooksLikeJsonFilter(s) /\ loads(s).ok THEN HoldsName(loads(s).v)
             ELSE IF "=" \in Range(s)
             THEN \E k \in DOMAIN tokens :
                     /\ "=" \in Range(tokens[k])
                     /\ strip(split1(tokens[k], "=")[1]) # <<>>
             ELSE \E k \in DOMAIN plain : strip(plain[k]) # <<>>

\* C6 amended: never both outputs; none for an absent filter; for a supplied filter
\* exactly one when it holds a non-blank name or key, and none when it holds none.
C6_AtMostOneOutput ==
    fn_name = "_parse_metadata_filter" =>
      /\ ~(fn_native[1].t # "none" /\ fn_native[2].t # "none")
      /\ AbsentFilter(fn_arg) => (fn_native[1].t = "none" /\ fn_native[2].t = "none")
      /\ SuppliedFilter(fn_arg) =>
           IF HoldsName(fn_arg)
           THEN (fn_native[1].t # "none") # (fn_native[2].t # "none")
           ELSE fn_native[1].t = "none" /\ fn_native[2].t = "none"
      /\ fn_arg.t = "list" => fn_native[2].t = "none"
      /\ fn_arg.t = "dict" => fn_native[1].t = "none"

\* C6 witness: a list whose elements are all blank was parsed, and neither output
\* is set.
C6_Witness ==
    /\ fn_name = "_parse_metadata_filter"
    /\ fn_arg = PyList(<<PyStr(<<>>), PyStr(<<" ">>)>>)
    /\ fn_native = <<PyNone, PyNone>>

==========================================================================
